---- MODULE Spec2Model ----
(***************************************************************************)
(* The CSS container-query grammar of                                      *)
(* crates/biome_css_parser/src/syntax/at_rule/container.rs as a state      *)
(* machine: the parser state p (cursor, tree-builder events, diagnostics), *)
(* an explicit call stack with one frame per production call, and one      *)
(* action per straight-line segment of each production.                    *)
(***************************************************************************)
EXTENDS Integers, Sequences, FiniteSets, TLC

VARIABLES tokens, expectConsumes, p, stack, ret, lastRet

vars == <<tokens, expectConsumes, p, stack, ret, lastRet>>

-----------------------------------------------------------------------------
(* Bounds of the input families *)

\* longest arbitrary token sequence tried after the `container` keyword
MaxLen == 3
\* most operands in a generated combinator chain
MaxOperands == 4

-----------------------------------------------------------------------------
(* Token kinds and node kinds *)

T_CONTAINER == "container"
T_IDENT == "ident"
T_VALUE == "value"
T_NOT == "not"
T_AND == "and"
T_OR == "or"
T_L_PAREN == "("
T_R_PAREN == ")"
T_STYLE == "style"
T_L_CURLY == "{"
T_R_CURLY == "}"
EOF == "EOF"

TokenKinds ==
  {T_CONTAINER, T_IDENT, T_VALUE, T_NOT, T_AND, T_OR, T_L_PAREN, T_R_PAREN,
   T_STYLE, T_L_CURLY, T_R_CURLY}

TOMBSTONE == "TOMBSTONE"
CSS_BOGUS_AT_RULE == "CSS_BOGUS_AT_RULE"
CSS_CONTAINER_AT_RULE == "CSS_CONTAINER_AT_RULE"
CSS_CONTAINER_AND_QUERY == "CSS_CONTAINER_AND_QUERY"
CSS_CONTAINER_OR_QUERY == "CSS_CONTAINER_OR_QUERY"
CSS_CONTAINER_NOT_QUERY == "CSS_CONTAINER_NOT_QUERY"
CSS_CONTAINER_QUERY_IN_PARENS == "CSS_CONTAINER_QUERY_IN_PARENS"
CSS_CONTAINER_SIZE_FEATURE_IN_PARENS == "CSS_CONTAINER_SIZE_FEATURE_IN_PARENS"
CSS_CONTAINER_STYLE_QUERY_IN_PARENS == "CSS_CONTAINER_STYLE_QUERY_IN_PARENS"
CSS_CONTAINER_STYLE_AND_QUERY == "CSS_CONTAINER_STYLE_AND_QUERY"
CSS_CONTAINER_STYLE_OR_QUERY == "CSS_CONTAINER_STYLE_OR_QUERY"
CSS_CONTAINER_STYLE_NOT_QUERY == "CSS_CONTAINER_STYLE_NOT_QUERY"
CSS_CONTAINER_STYLE_IN_PARENS == "CSS_CONTAINER_STYLE_IN_PARENS"
\* node kinds of the external leaf grammars
CSS_IDENTIFIER == "CSS_IDENTIFIER"
CSS_QUERY_FEATURE == "CSS_QUERY_FEATURE"
CSS_DECLARATION == "CSS_DECLARATION"
CSS_RULE_LIST_BLOCK == "CSS_RULE_LIST_BLOCK"
CSS_BOGUS_BLOCK == "CSS_BOGUS_BLOCK"

BogusKinds == {CSS_BOGUS_AT_RULE, CSS_BOGUS_BLOCK}

-----------------------------------------------------------------------------
(* Tree-builder events and parse outcomes *)

OpenEv(kind) == [t |-> "open", k |-> kind, i |-> 0]
TokEv(kind, idx) == [t |-> "tok", k |-> kind, i |-> idx]
CloseEv == [t |-> "close", k |-> "", i |-> 0]

Absent == [present |-> FALSE, node |-> 0]
Present(n) == [present |-> TRUE, node |-> n]

-----------------------------------------------------------------------------
(* Token cursor: ps is a parser state [pos, events, diags, panicked] *)

cur(ps) == IF ps.pos <= Len(tokens) THEN tokens[ps.pos] ELSE EOF

nth(ps, n) == IF ps.pos + n <= Len(tokens) THEN tokens[ps.pos + n] ELSE EOF

at(ps, kind) == cur(ps) = kind

nth_at(ps, n, kind) == nth(ps, n) = kind

\* consume the current token into the innermost open node
do_bump(ps) ==
  [ps EXCEPT !.events = Append(@, TokEv(cur(ps), ps.pos)), !.pos = @ + 1]

\* bump(kind): the caller guarantees at(kind); otherwise the parser panics
bump(ps, kind) ==
  IF ps.panicked THEN ps
  ELSE IF at(ps, kind) THEN do_bump(ps)
  ELSE [ps EXCEPT !.panicked = TRUE]

\* expect(kind): like bump, but a mismatch records a diagnostic at the current
\* position and parsing continues.  Whether the mismatching token is then
\* consumed is left open by the description ("still advances"), so both
\* readings are modelled, selected by expectConsumes.
expect(ps, kind) ==
  IF ps.panicked THEN ps
  ELSE IF at(ps, kind) THEN do_bump(ps)
  ELSE LET d == [ps EXCEPT !.diags = Append(@, ps.pos)]
       IN  IF expectConsumes /\ cur(ps) # EOF THEN do_bump(d) ELSE d

-----------------------------------------------------------------------------
(* Tree builder *)

\* start(): open a marker at the current end of the event list
start(ps) == [ps EXCEPT !.events = Append(@, OpenEv(TOMBSTONE))]

\* the marker start(ps) has just opened in its result
marker(ps) == Len(ps.events)

\* complete(m, kind): assign the kind and close the node
complete(ps, m, kind) ==
  IF ps.panicked THEN ps
  ELSE [ps EXCEPT !.events = Append([@ EXCEPT ![m].k = kind], CloseEv)]

\* precede(parsed): a new open marker whose start is the start of the
\* completed node (a new open event inserted at the node's index); on Absent
\* there is nothing to wrap and the marker opens at the current position.
precede(ps, parsed) ==
  IF parsed.present
    THEN [ps EXCEPT !.events =
            SubSeq(@, 1, parsed.node - 1) \o <<OpenEv(TOMBSTONE)>>
              \o SubSeq(@, parsed.node, Len(@))]
    ELSE start(ps)

\* the marker precede(ps, parsed) returns
preceding_marker(ps, parsed) ==
  IF parsed.present THEN parsed.node ELSE Len(ps.events) + 1

-----------------------------------------------------------------------------
(* External leaf grammars, at their boundary: Present/Absent, no panic, and *)
(* Absent leaves the parser state untouched.                               *)

is_at_identifier(ps) == at(ps, T_IDENT)

RECURSIVE bump_while(_, _)
\* consume the run of tokens of the given kinds at the cursor
bump_while(ps, kinds) ==
  IF cur(ps) \in kinds THEN bump_while(do_bump(ps), kinds) ELSE ps

\* parse_regular_identifier: one identifier token as a CSS_IDENTIFIER node
parse_regular_identifier(ps) ==
  IF ~is_at_identifier(ps) THEN [p |-> ps, r |-> Absent]
  ELSE LET s == start(ps)
       IN  [p |-> complete(bump(s, T_IDENT), marker(s), CSS_IDENTIFIER),
            r |-> Present(marker(s))]

\* parse_any_query_feature: a feature name and the value tokens after it
parse_any_query_feature(ps) ==
  IF ~is_at_identifier(ps) THEN [p |-> ps, r |-> Absent]
  ELSE LET s == start(ps)
       IN  [p |-> complete(bump_while(bump(s, T_IDENT), {T_VALUE}), marker(s),
                           CSS_QUERY_FEATURE),
            r |-> Present(marker(s))]

\* parse_declaration: a property name and the value tokens after it
parse_declaration(ps) ==
  IF ~is_at_identifier(ps) THEN [p |-> ps, r |-> Absent]
  ELSE LET s == start(ps)
       IN  [p |-> complete(bump_while(bump(s, T_IDENT), {T_VALUE}), marker(s),
                           CSS_DECLARATION),
            r |-> Present(marker(s))]

RECURSIVE skip_balanced(_, _)
\* consume tokens up to (not including) the `}` that closes depth 0, or EOF
skip_balanced(ps, depth) ==
  IF cur(ps) = EOF THEN ps
  ELSE IF cur(ps) = T_R_CURLY
    THEN IF depth = 0 THEN ps ELSE skip_balanced(do_bump(ps), depth - 1)
  ELSE IF cur(ps) = T_L_CURLY THEN skip_balanced(do_bump(ps), depth + 1)
  ELSE skip_balanced(do_bump(ps), depth)

\* parse_or_recover_rule_list_block: at `{` the block up to its balanced `}`;
\* otherwise one diagnostic, and either the tokens up to and including the
\* next balanced `}` are skipped into a bogus block, or (nothing left to skip)
\* the recovery fails.
parse_or_recover_rule_list_block(ps) ==
  IF at(ps, T_L_CURLY)
    THEN LET s == start(ps)
             b == skip_balanced(bump(s, T_L_CURLY), 0)
         IN  [p |-> complete(expect(b, T_R_CURLY), marker(s), CSS_RULE_LIST_BLOCK),
              err |-> FALSE]
    ELSE LET d == [ps EXCEPT !.diags = Append(@, ps.pos)]
         IN  IF cur(ps) = EOF THEN [p |-> d, err |-> TRUE]
             ELSE LET s == start(d)
                      b == skip_balanced(s, 0)
                      e == IF at(b, T_R_CURLY) THEN do_bump(b) ELSE b
                  IN  [p |-> complete(e, marker(s), CSS_BOGUS_BLOCK),
                       err |-> FALSE]

-----------------------------------------------------------------------------
(* Inputs *)

SeqsUpTo(S, n) == UNION {[1..k -> S] : k \in 0..n}

\* `container` followed by every token sequence of at most MaxLen tokens, and
\* every one-token input that does not start a container at-rule
ArbitraryInputs ==
  {<<T_CONTAINER>> \o s : s \in SeqsUpTo(TokenKinds, MaxLen)}
    \cup {<<t>> : t \in TokenKinds \ {T_CONTAINER}}

SizeOperand == <<T_L_PAREN, T_IDENT, T_R_PAREN>>
StyleOperand == <<T_STYLE, T_L_PAREN, T_IDENT, T_VALUE, T_R_PAREN>>
ChainOperands == {SizeOperand, StyleOperand}
ChainOps == {T_AND, T_OR}
Block == <<T_L_CURLY, T_R_CURLY>>

RECURSIVE chain(_, _, _)
\* operands[1] ops[1] operands[2] ... operands[n]
chain(operands, ops, n) ==
  IF n = 1 THEN operands[1]
  ELSE chain(operands, ops, n - 1) \o <<ops[n - 1]>> \o operands[n]

\* container q1 op1 q2 ... qn, with and without a block
ChainInputs ==
  {<<T_CONTAINER>> \o chain(c[1], c[2], Len(c[1])) \o c[3] :
     c \in UNION {[1..n -> ChainOperands] \X [1..(n - 1) -> ChainOps] \X {<<>>, Block}
                    : n \in 1..MaxOperands}}

\* one condition of each shape the grammar distinguishes
Conditions ==
  { <<T_L_PAREN, T_IDENT, T_VALUE, T_R_PAREN>>,
    <<T_L_PAREN, T_L_PAREN, T_IDENT, T_VALUE, T_R_PAREN>>,
    <<T_L_PAREN>> \o SizeOperand \o <<T_R_PAREN>>,
    <<T_L_PAREN>> \o SizeOperand,
    <<T_L_PAREN, T_NOT>> \o SizeOperand \o <<T_R_PAREN>>,
    <<T_L_PAREN>> \o SizeOperand \o <<T_AND>> \o SizeOperand \o <<T_R_PAREN>>,
    <<T_L_PAREN>> \o SizeOperand \o <<T_OR>> \o SizeOperand \o <<T_R_PAREN>>,
    <<T_L_PAREN>> \o StyleOperand \o <<T_R_PAREN>>,
    <<T_STYLE, T_L_PAREN, T_NOT, T_L_PAREN, T_IDENT, T_VALUE, T_R_PAREN, T_R_PAREN>>,
    <<T_STYLE, T_L_PAREN, T_NOT, T_IDENT, T_R_PAREN>>,
    <<T_STYLE, T_L_PAREN, T_L_PAREN, T_IDENT, T_VALUE, T_R_PAREN, T_R_PAREN>>,
    <<T_STYLE, T_L_PAREN, T_L_PAREN, T_IDENT, T_VALUE, T_R_PAREN, T_AND,
      T_L_PAREN, T_IDENT, T_VALUE, T_R_PAREN, T_R_PAREN>>,
    <<T_STYLE, T_L_PAREN, T_L_PAREN, T_IDENT, T_VALUE, T_R_PAREN, T_OR,
      T_L_PAREN, T_IDENT, T_VALUE, T_R_PAREN, T_AND,
      T_L_PAREN, T_IDENT, T_VALUE, T_R_PAREN, T_R_PAREN>>,
    <<T_STYLE, T_L_PAREN, T_L_PAREN, T_L_PAREN, T_IDENT, T_R_PAREN, T_R_PAREN,
      T_R_PAREN>>,
    <<T_STYLE, T_L_PAREN, T_L_PAREN, T_IDENT, T_VALUE, T_AND, T_R_PAREN>>,
    <<T_STYLE, T_IDENT, T_VALUE, T_R_PAREN>> }

\* container [name] [not] condition [block]
ConditionInputs ==
  {<<T_CONTAINER>> \o n \o neg \o c \o b :
     n \in {<<>>, <<T_IDENT>>}, neg \in {<<>>, <<T_NOT>>}, c \in Conditions,
     b \in {<<>>, Block, <<T_L_CURLY, T_IDENT, T_VALUE>>}}

Inputs == ArbitraryInputs \cup ChainInputs \cup ConditionInputs

-----------------------------------------------------------------------------
(* Call stack *)

Productions ==
  {"parse_container_at_rule", "parse_any_container_query",
   "parse_container_and_query", "parse_container_or_query",
   "parse_container_not_query", "parse_any_container_query_in_parens",
   "parse_container_query_in_parens", "parse_container_size_feature_in_parens",
   "parse_container_style_query_in_parens", "parse_any_container_style_query",
   "parse_any_container_style_combinable_query",
   "parse_container_style_not_query", "parse_container_style_in_parens"}

\* a frame: the production, where it resumes, its marker m, its local parsed
\* result r, the block parser's verdict err, and the parser state at entry
Frame(fn, ps) ==
  [fn |-> fn, pc |-> "start", m |-> 0, r |-> Absent, err |-> FALSE,
   pos0 |-> ps.pos, events0 |-> ps.events, diags0 |-> ps.diags]

NoFrame ==
  [fn |-> "none", pc |-> "none", m |-> 0, r |-> Absent, err |-> FALSE,
   pos0 |-> 0, events0 |-> <<>>, diags0 |-> <<>>]

NoRet == [f |-> NoFrame, res |-> Absent]

Top == stack[Len(stack)]

Running(fn, pc) ==
  /\ ~p.panicked
  /\ stack # <<>>
  /\ Top.fn = fn
  /\ Top.pc = pc

\* a panic unwinds: the parse stops where it is
Panic ==
  /\ p' = [p EXCEPT !.panicked = TRUE]
  /\ lastRet' = NoRet
  /\ UNCHANGED <<tokens, expectConsumes, stack, ret>>

\* call `callee` on parser state ps; the caller resumes at pc with locals m, r
Call(ps, pc, m, r, callee) ==
  IF ps.panicked THEN Panic
  ELSE /\ p' = ps
       /\ stack' = Append([stack EXCEPT ![Len(stack)] =
                             [Top EXCEPT !.pc = pc, !.m = m, !.r = r]],
                          Frame(callee, ps))
       /\ lastRet' = NoRet
       /\ UNCHANGED <<tokens, expectConsumes, ret>>

\* stay in the same production, moving to pc
Goto(ps, pc, err) ==
  IF ps.panicked THEN Panic
  ELSE /\ p' = ps
       /\ stack' = [stack EXCEPT ![Len(stack)] = [Top EXCEPT !.pc = pc, !.err = err]]
       /\ lastRet' = NoRet
       /\ UNCHANGED <<tokens, expectConsumes, ret>>

\* return res to the caller, leaving the parser in state ps
Return(ps, res) ==
  IF ps.panicked THEN Panic
  ELSE /\ p' = ps
       /\ stack' = SubSeq(stack, 1, Len(stack) - 1)
       /\ ret' = res
       /\ lastRet' = [f |-> Top, res |-> res]
       /\ UNCHANGED <<tokens, expectConsumes>>

-----------------------------------------------------------------------------
(* parse_container_at_rule *)

is_at_container_at_rule(ps) == at(ps, T_CONTAINER)

\* variant: a failed block is not reflected in the kind
at_rule_kind_ignoring_block(err) == CSS_CONTAINER_AT_RULE

\* the kind the at-rule is completed with
at_rule_kind(err) == IF err THEN CSS_BOGUS_AT_RULE ELSE CSS_CONTAINER_AT_RULE

\* variant: the marker is opened after the `container` token is consumed
parse_container_at_rule_start_late_marker ==
  /\ Running("parse_container_at_rule", "start")
  /\ IF ~is_at_container_at_rule(p) THEN Return(p, Absent)
     ELSE LET s == start(bump(p, T_CONTAINER))
              i == parse_regular_identifier(s).p
          IN  Call(i, "block", marker(s), Absent, "parse_any_container_query")

parse_container_at_rule_start ==
  /\ Running("parse_container_at_rule", "start")
  /\ IF ~is_at_container_at_rule(p) THEN Return(p, Absent)
     ELSE LET s == start(p)
              b == bump(s, T_CONTAINER)
              i == parse_regular_identifier(b).p
          IN  Call(i, "block", marker(s), Absent, "parse_any_container_query")

parse_container_at_rule_block ==
  /\ Running("parse_container_at_rule", "block")
  /\ LET b == parse_or_recover_rule_list_block(p)
     IN  Goto(b.p, "complete", b.err)

parse_container_at_rule_complete ==
  /\ Running("parse_container_at_rule", "complete")
  /\ Return(complete(p, Top.m, at_rule_kind(Top.err)), Present(Top.m))

-----------------------------------------------------------------------------
(* parse_any_container_query, parse_container_and_query, *)
(* parse_container_or_query                              *)

is_at_container_not_query(ps) == at(ps, T_NOT)

parse_any_container_query_start ==
  /\ Running("parse_any_container_query", "start")
  /\ IF is_at_container_not_query(p)
       THEN Call(p, "tail", 0, Absent, "parse_container_not_query")
       ELSE Call(p, "combinator", 0, Absent, "parse_any_container_query_in_parens")

parse_any_container_query_tail ==
  /\ Running("parse_any_container_query", "tail")
  /\ Return(p, ret)

parse_any_container_query_combinator ==
  /\ Running("parse_any_container_query", "combinator")
  /\ LET query_in_parens == ret
         m == preceding_marker(p, query_in_parens)
     IN  CASE cur(p) = T_AND ->
                Call(bump(precede(p, query_in_parens), T_AND), "complete_and", m,
                     query_in_parens, "parse_container_and_query")
           [] cur(p) = T_OR ->
                Call(bump(precede(p, query_in_parens), T_OR), "complete_or", m,
                     query_in_parens, "parse_container_or_query")
           [] OTHER -> Return(p, query_in_parens)

parse_any_container_query_complete_and ==
  /\ Running("parse_any_container_query", "complete_and")
  /\ Return(complete(p, Top.m, CSS_CONTAINER_AND_QUERY), Present(Top.m))

parse_any_container_query_complete_or ==
  /\ Running("parse_any_container_query", "complete_or")
  /\ Return(complete(p, Top.m, CSS_CONTAINER_OR_QUERY), Present(Top.m))

parse_container_and_query_start ==
  /\ Running("parse_container_and_query", "start")
  /\ Call(p, "combinator", 0, Absent, "parse_any_container_query_in_parens")

\* variant: an `and` chain continues over `or` as well
parse_container_and_query_combinator_any_operator ==
  /\ Running("parse_container_and_query", "combinator")
  /\ LET query_in_parens == ret
     IN  IF at(p, T_AND) \/ at(p, T_OR)
           THEN Call(bump(precede(p, query_in_parens), cur(p)), "complete",
                     preceding_marker(p, query_in_parens), query_in_parens,
                     "parse_container_and_query")
           ELSE Return(p, query_in_parens)

parse_container_and_query_combinator ==
  /\ Running("parse_container_and_query", "combinator")
  /\ LET query_in_parens == ret
     IN  IF at(p, T_AND)
           THEN Call(bump(precede(p, query_in_parens), T_AND), "complete",
                     preceding_marker(p, query_in_parens), query_in_parens,
                     "parse_container_and_query")
           ELSE Return(p, query_in_parens)

\* variant: the nested and-query is completed with the or-query kind
parse_container_and_query_complete_as_or ==
  /\ Running("parse_container_and_query", "complete")
  /\ Return(complete(p, Top.m, CSS_CONTAINER_OR_QUERY), Present(Top.m))

parse_container_and_query_complete ==
  /\ Running("parse_container_and_query", "complete")
  /\ Return(complete(p, Top.m, CSS_CONTAINER_AND_QUERY), Present(Top.m))

parse_container_or_query_start ==
  /\ Running("parse_container_or_query", "start")
  /\ Call(p, "combinator", 0, Absent, "parse_any_container_query_in_parens")

\* the production that continues an `or` chain (line 84 names the and-query)
or_query_continuation == "parse_container_and_query"

parse_container_or_query_combinator ==
  /\ Running("parse_container_or_query", "combinator")
  /\ LET query_in_parens == ret
     IN  IF at(p, T_OR)
           THEN Call(bump(precede(p, query_in_parens), T_OR), "complete",
                     preceding_marker(p, query_in_parens), query_in_parens,
                     or_query_continuation)
           ELSE Return(p, query_in_parens)

parse_container_or_query_complete ==
  /\ Running("parse_container_or_query", "complete")
  /\ Return(complete(p, Top.m, CSS_CONTAINER_OR_QUERY), Present(Top.m))

-----------------------------------------------------------------------------
(* parse_container_not_query *)

parse_container_not_query_start ==
  /\ Running("parse_container_not_query", "start")
  /\ IF ~is_at_container_not_query(p) THEN Return(p, Absent)
     ELSE LET s == start(p)
          IN  Call(bump(s, T_NOT), "complete", marker(s), Absent,
                   "parse_any_container_query_in_parens")

\* variant: the marker is handed back without being completed
parse_container_not_query_complete_skipped ==
  /\ Running("parse_container_not_query", "complete")
  /\ Return(p, Present(Top.m))

parse_container_not_query_complete ==
  /\ Running("parse_container_not_query", "complete")
  /\ Return(complete(p, Top.m, CSS_CONTAINER_NOT_QUERY), Present(Top.m))

-----------------------------------------------------------------------------
(* parse_any_container_query_in_parens and its three alternatives *)

\* variant: `(` followed by `style` also opens a grouping parenthesis
is_at_container_query_in_parens_or_style(ps) ==
  at(ps, T_L_PAREN)
    /\ (nth_at(ps, 1, T_NOT) \/ nth_at(ps, 1, T_L_PAREN) \/ nth_at(ps, 1, T_STYLE))

is_at_container_query_in_parens(ps) ==
  at(ps, T_L_PAREN) /\ (nth_at(ps, 1, T_NOT) \/ nth_at(ps, 1, T_L_PAREN))

is_at_container_size_feature_in_parens(ps) == at(ps, T_L_PAREN)

is_at_container_style_query_in_parens(ps) == at(ps, T_STYLE)

\* variant: the size-feature test comes before the grouping test
query_in_parens_alternative_size_first(ps) ==
  IF is_at_container_size_feature_in_parens(ps)
    THEN "parse_container_size_feature_in_parens"
  ELSE IF is_at_container_query_in_parens(ps) THEN "parse_container_query_in_parens"
  ELSE IF is_at_container_style_query_in_parens(ps)
    THEN "parse_container_style_query_in_parens"
  ELSE "none"

\* the alternative parse_any_container_query_in_parens hands over to
query_in_parens_alternative(ps) ==
  IF is_at_container_query_in_parens(ps) THEN "parse_container_query_in_parens"
  ELSE IF is_at_container_style_query_in_parens(ps)
    THEN "parse_container_style_query_in_parens"
  ELSE IF is_at_container_size_feature_in_parens(ps)
    THEN "parse_container_size_feature_in_parens"
  ELSE "none"

parse_any_container_query_in_parens_start ==
  /\ Running("parse_any_container_query_in_parens", "start")
  /\ IF query_in_parens_alternative(p) = "none" THEN Return(p, Absent)
     ELSE Call(p, "tail", 0, Absent, query_in_parens_alternative(p))

parse_any_container_query_in_parens_tail ==
  /\ Running("parse_any_container_query_in_parens", "tail")
  /\ Return(p, ret)

parse_container_query_in_parens_start ==
  /\ Running("parse_container_query_in_parens", "start")
  /\ IF ~is_at_container_query_in_parens(p) THEN Return(p, Absent)
     ELSE LET s == start(p)
          IN  Call(bump(s, T_L_PAREN), "close", marker(s), Absent,
                   "parse_any_container_query")

parse_container_query_in_parens_close ==
  /\ Running("parse_container_query_in_parens", "close")
  /\ Return(complete(bump(p, T_R_PAREN), Top.m, CSS_CONTAINER_QUERY_IN_PARENS),
            Present(Top.m))

parse_container_size_feature_in_parens ==
  /\ Running("parse_container_size_feature_in_parens", "start")
  /\ IF ~is_at_container_size_feature_in_parens(p) THEN Return(p, Absent)
     ELSE LET s == start(p)
              f == parse_any_query_feature(bump(s, T_L_PAREN)).p
          IN  Return(complete(expect(f, T_R_PAREN), marker(s),
                              CSS_CONTAINER_SIZE_FEATURE_IN_PARENS),
                     Present(marker(s)))

parse_container_style_query_in_parens_start ==
  /\ Running("parse_container_style_query_in_parens", "start")
  /\ IF ~is_at_container_style_query_in_parens(p) THEN Return(p, Absent)
     ELSE LET s == start(p)
          IN  Call(expect(bump(s, T_STYLE), T_L_PAREN), "close", marker(s), Absent,
                   "parse_any_container_style_query")

parse_container_style_query_in_parens_close ==
  /\ Running("parse_container_style_query_in_parens", "close")
  /\ Return(complete(expect(p, T_R_PAREN), Top.m,
                     CSS_CONTAINER_STYLE_QUERY_IN_PARENS),
            Present(Top.m))

-----------------------------------------------------------------------------
(* The style-query grammar *)

is_at_container_style_not_query(ps) == at(ps, T_NOT) /\ nth_at(ps, 1, T_L_PAREN)

parse_any_container_style_query_start ==
  /\ Running("parse_any_container_style_query", "start")
  /\ IF is_at_container_style_not_query(p)
       THEN Call(p, "tail", 0, Absent, "parse_container_style_not_query")
     ELSE IF is_at_identifier(p)
       THEN LET d == parse_declaration(p) IN Return(d.p, d.r)
     ELSE Call(p, "tail", 0, Absent, "parse_any_container_style_combinable_query")

parse_any_container_style_query_tail ==
  /\ Running("parse_any_container_style_query", "tail")
  /\ Return(p, ret)

parse_any_container_style_combinable_query_start ==
  /\ Running("parse_any_container_style_combinable_query", "start")
  /\ Call(p, "combinator", 0, Absent, "parse_container_style_in_parens")

parse_any_container_style_combinable_query_combinator ==
  /\ Running("parse_any_container_style_combinable_query", "combinator")
  /\ LET style_in_parens == ret
         m == preceding_marker(p, style_in_parens)
     IN  CASE cur(p) = T_AND ->
                Call(bump(precede(p, style_in_parens), T_AND), "complete_and", m,
                     style_in_parens, "parse_any_container_style_combinable_query")
           [] cur(p) = T_OR ->
                Call(bump(precede(p, style_in_parens), T_OR), "complete_or", m,
                     style_in_parens, "parse_any_container_style_combinable_query")
           [] OTHER -> Return(p, style_in_parens)

parse_any_container_style_combinable_query_complete_and ==
  /\ Running("parse_any_container_style_combinable_query", "complete_and")
  /\ Return(complete(p, Top.m, CSS_CONTAINER_STYLE_AND_QUERY), Present(Top.m))

parse_any_container_style_combinable_query_complete_or ==
  /\ Running("parse_any_container_style_combinable_query", "complete_or")
  /\ Return(complete(p, Top.m, CSS_CONTAINER_STYLE_OR_QUERY), Present(Top.m))

parse_container_style_not_query_start ==
  /\ Running("parse_container_style_not_query", "start")
  /\ IF ~is_at_container_style_not_query(p) THEN Return(p, Absent)
     ELSE LET s == start(p)
          IN  Call(bump(s, T_NOT), "complete", marker(s), Absent,
                   "parse_container_style_in_parens")

parse_container_style_not_query_complete ==
  /\ Running("parse_container_style_not_query", "complete")
  /\ Return(complete(p, Top.m, CSS_CONTAINER_STYLE_NOT_QUERY), Present(Top.m))

\* variant: the marker is opened before the leading `(` is checked
parse_container_style_in_parens_start_marker_first ==
  /\ Running("parse_container_style_in_parens", "start")
  /\ LET s == start(p)
     IN  IF ~at(p, T_L_PAREN) THEN Return(s, Absent)
         ELSE Call(bump(s, T_L_PAREN), "close", marker(s), Absent,
                   "parse_any_container_style_query")

parse_container_style_in_parens_start ==
  /\ Running("parse_container_style_in_parens", "start")
  /\ IF ~at(p, T_L_PAREN) THEN Return(p, Absent)
     ELSE LET s == start(p)
          IN  Call(bump(s, T_L_PAREN), "close", marker(s), Absent,
                   "parse_any_container_style_query")

parse_container_style_in_parens_close ==
  /\ Running("parse_container_style_in_parens", "close")
  /\ Return(complete(expect(p, T_R_PAREN), Top.m, CSS_CONTAINER_STYLE_IN_PARENS),
            Present(Top.m))

-----------------------------------------------------------------------------
(* The specification *)

\* the caller invokes parse_container_at_rule at the first token of an input
Init ==
  /\ tokens \in Inputs
  /\ expectConsumes \in BOOLEAN
  /\ p = [pos |-> 1, events |-> <<>>, diags |-> <<>>, panicked |-> FALSE]
  /\ stack = <<Frame("parse_container_at_rule", p)>>
  /\ ret = Absent
  /\ lastRet = NoRet

Next ==
  \/ parse_container_at_rule_start
  \/ parse_container_at_rule_block
  \/ parse_container_at_rule_complete
  \/ parse_any_container_query_start
  \/ parse_any_container_query_tail
  \/ parse_any_container_query_combinator
  \/ parse_any_container_query_complete_and
  \/ parse_any_container_query_complete_or
  \/ parse_container_and_query_start
  \/ parse_container_and_query_combinator
  \/ parse_container_and_query_complete
  \/ parse_container_or_query_start
  \/ parse_container_or_query_combinator
  \/ parse_container_or_query_complete
  \/ parse_container_not_query_start
  \/ parse_container_not_query_complete
  \/ parse_any_container_query_in_parens_start
  \/ parse_any_container_query_in_parens_tail
  \/ parse_container_query_in_parens_start
  \/ parse_container_query_in_parens_close
  \/ parse_container_size_feature_in_parens
  \/ parse_container_style_query_in_parens_start
  \/ parse_container_style_query_in_parens_close
  \/ parse_any_container_style_query_start
  \/ parse_any_container_style_query_tail
  \/ parse_any_container_style_combinable_query_start
  \/ parse_any_container_style_combinable_query_combinator
  \/ parse_any_container_style_combinable_query_complete_and
  \/ parse_any_container_style_combinable_query_complete_or
  \/ parse_container_style_not_query_start
  \/ parse_container_style_not_query_complete
  \/ parse_container_style_in_parens_start
  \/ parse_container_style_in_parens_close

Spec == Init /\ [][Next]_vars

-----------------------------------------------------------------------------
(* Reading the event list as a tree *)

RECURSIVE close_from(_, _, _)
\* the index of the close event that brings the depth back to 0, scanning
\* from i at the given depth; 0 when there is none
close_from(ev, i, depth) ==
  IF i > Len(ev) THEN 0
  ELSE IF ev[i].t = "open" THEN close_from(ev, i + 1, depth + 1)
  ELSE IF ev[i].t = "close"
    THEN IF depth = 1 THEN i ELSE close_from(ev, i + 1, depth - 1)
  ELSE close_from(ev, i + 1, depth)

\* the close event of the node opened at n
MatchClose(ev, n) == close_from(ev, n + 1, 1)

RECURSIVE children_from(_, _, _)
children_from(ev, i, stop) ==
  IF i >= stop THEN <<>>
  ELSE IF ev[i].t = "open"
    THEN <<i>> \o children_from(ev, MatchClose(ev, i) + 1, stop)
  ELSE <<i>> \o children_from(ev, i + 1, stop)

\* the direct children (nodes by their open event, tokens) of node n, in order
Children(ev, n) == children_from(ev, n + 1, MatchClose(ev, n))

IsNode(ev, i, kinds) == ev[i].t = "open" /\ ev[i].k \in kinds

IsToken(ev, i, kind) == ev[i].t = "tok" /\ ev[i].k = kind

\* the source positions of the token events among ev[from..to], in order
TokenPositions(ev, from, to) ==
  LET sel == SelectSeq(SubSeq(ev, from, to), LAMBDA e : e.t = "tok")
  IN  [j \in 1..Len(sel) |-> sel[j].i]

\* the positions from..(to - 1) in source order
Positions(from, to) == [j \in 1..(to - from) |-> from + j - 1]

OpenCount(ev, kinds) == Cardinality({i \in 1..Len(ev) : IsNode(ev, i, kinds)})

\* a production has just returned to its caller
Returned(fn) == lastRet.f.fn = fn

ReturnedPresent(fn) == Returned(fn) /\ lastRet.res.present

\* the container condition has just returned to parse_container_at_rule
ConditionReturned == Len(stack) = 1 /\ Returned("parse_any_container_query")

FirstIndex(s, kinds) ==
  IF \E i \in 1..Len(s) : s[i] \in kinds
    THEN CHOOSE i \in 1..Len(s) : s[i] \in kinds /\ \A j \in 1..(i - 1) : s[j] \notin kinds
    ELSE Len(s) + 1

-----------------------------------------------------------------------------
(* Claims *)

\* C1: whenever a production of the container grammar returns Absent, the
\* cursor position, the event sequence and the diagnostics are exactly what
\* they were when the production was called.
AbsentLeavesParserUntouched ==
  (lastRet.f.fn \in Productions /\ ~lastRet.res.present) =>
    /\ p.pos = lastRet.f.pos0
    /\ p.events = lastRet.f.events0
    /\ p.diags = lastRet.f.diags0

\* an inner production returned Absent to a caller that had already consumed
\* tokens and recorded events
AbsentAfterProgress ==
  /\ Returned("parse_container_style_in_parens")
  /\ ~lastRet.res.present
  /\ lastRet.f.pos0 > 1
  /\ lastRet.f.events0 # <<>>

\* C2: no bump(kind) is reached with a current token other than kind, so the
\* parser never panics.
BumpNeverPanics == ~p.panicked

\* C3: when a production returns Present (parse_container_at_rule among
\* them), the token events between the open and the close event of the
\* returned node are exactly the tokens from the cursor position at the call
\* to the cursor position at the return, once each and in source order, and
\* each carries the kind of its source token.
ReturnedNodeCoversConsumedTokens ==
  (lastRet.f.fn \in Productions /\ lastRet.res.present) =>
    LET n == lastRet.res.node
        c == MatchClose(p.events, n)
    IN  /\ c = Len(p.events)
        /\ TokenPositions(p.events, n, c) = Positions(lastRet.f.pos0, p.pos)
        /\ \A i \in n..c :
             p.events[i].t = "tok" => p.events[i].k = tokens[p.events[i].i]

\* parse_container_at_rule returned a node in which precede re-parented a
\* completed operand
AtRuleReturnedWithReparenting ==
  /\ ReturnedPresent("parse_container_at_rule")
  /\ OpenCount(p.events, {CSS_CONTAINER_AND_QUERY, CSS_CONTAINER_OR_QUERY}) >= 2
  /\ p.pos > Len(tokens)

\* C4: parse_container_at_rule called at `container` returns Present; the
\* node is a BogusAtRule exactly when the block parser failed and a
\* ContainerAtRule otherwise; it starts at the `container` token and spans
\* every event recorded during the call; no other node is a BogusAtRule and
\* no inner production returns a Bogus node; `container foo` without a block
\* yields a BogusAtRule over `container foo` with one diagnostic.
StructuralRecovery ==
  /\ (Returned("parse_container_at_rule") /\ tokens[lastRet.f.pos0] = T_CONTAINER) =>
       /\ lastRet.res.present
       /\ LET n == lastRet.res.node
          IN  /\ p.events[n].k =
                   (IF lastRet.f.err THEN CSS_BOGUS_AT_RULE ELSE CSS_CONTAINER_AT_RULE)
              /\ n = Len(lastRet.f.events0) + 1
              /\ p.events[n + 1] = TokEv(T_CONTAINER, lastRet.f.pos0)
              /\ MatchClose(p.events, n) = Len(p.events)
              /\ TokenPositions(p.events, n, Len(p.events)) =
                   Positions(lastRet.f.pos0, p.pos)
  /\ \A i \in 1..Len(p.events) : p.events[i].k = CSS_BOGUS_AT_RULE => i = 1
  /\ (lastRet.f.fn \in Productions \ {"parse_container_at_rule"} /\ lastRet.res.present) =>
       p.events[lastRet.res.node].k \notin BogusKinds
  /\ (Returned("parse_container_at_rule") /\ tokens = <<T_CONTAINER, T_IDENT>>) =>
       /\ p.events = <<OpenEv(CSS_BOGUS_AT_RULE), TokEv(T_CONTAINER, 1),
                       OpenEv(CSS_IDENTIFIER), TokEv(T_IDENT, 2), CloseEv, CloseEv>>
       /\ Len(p.diags) = 1

\* the block parser failed after an identifier and a condition were completed
BogusAtRuleWithChildren ==
  /\ ReturnedPresent("parse_container_at_rule")
  /\ lastRet.f.err
  /\ p.events[1].k = CSS_BOGUS_AT_RULE
  /\ OpenCount(p.events, {CSS_IDENTIFIER}) >= 1
  /\ OpenCount(p.events, {CSS_CONTAINER_SIZE_FEATURE_IN_PARENS}) >= 1

\* C5: when a production returns, every marker it opened has been completed
\* once: the returned node and everything after its open event is a balanced
\* sequence without a pending marker, and the only pending markers left in the
\* event list are the ones the callers still on the stack hold.
MarkersCompletedAtReturn ==
  /\ (lastRet.f.fn \in Productions /\ lastRet.res.present) =>
       LET n == lastRet.res.node
       IN  /\ p.events[n].t = "open"
           /\ MatchClose(p.events, n) = Len(p.events)
           /\ \A i \in n..Len(p.events) : p.events[i].k # TOMBSTONE
           /\ \A i \in n..Len(p.events) :
                p.events[i].t = "open" => MatchClose(p.events, i) # 0
  /\ lastRet.f.fn \in Productions =>
       /\ OpenCount(p.events, {TOMBSTONE}) =
            Cardinality({i \in 1..Len(stack) : stack[i].m # 0})
       /\ \A i \in 1..Len(stack) :
            stack[i].m # 0 => p.events[stack[i].m] = OpenEv(TOMBSTONE)

\* a production that used both start() and precede() returned from inside a
\* parenthesised group
NestedCombinatorReturned ==
  /\ ReturnedPresent("parse_any_container_query")
  /\ Len(stack) >= 3
  /\ p.events[lastRet.res.node].k = CSS_CONTAINER_AND_QUERY

-----------------------------------------------------------------------------
(* Claims about combinator chains and dispatch *)

TokenAt(i) == IF i <= Len(tokens) THEN tokens[i] ELSE EOF

\* the operators of the input, in order
OperatorsOf(toks) == SelectSeq(toks, LAMBDA t : t \in ChainOps)

\* the input is container q1 op q2 ... op qn [block] with n >= 2 operands
IsChainInput == tokens \in ChainInputs /\ OperatorsOf(tokens) # <<>>

\* ... and every operator of the chain is op
IsHomogeneousChain(op) ==
  /\ IsChainInput
  /\ \A i \in 1..Len(OperatorsOf(tokens)) : OperatorsOf(tokens)[i] = op

\* the position just after the last operand of a chain input
ChainEnd == FirstIndex(tokens, {T_L_CURLY})

Min(a, b) == IF a < b THEN a ELSE b

CombinatorKind(op) ==
  IF op = T_AND THEN CSS_CONTAINER_AND_QUERY ELSE CSS_CONTAINER_OR_QUERY

OperandKinds ==
  {CSS_CONTAINER_QUERY_IN_PARENS, CSS_CONTAINER_SIZE_FEATURE_IN_PARENS,
   CSS_CONTAINER_STYLE_QUERY_IN_PARENS}

\* container (a) and (b) or (c) { }
MixedExample ==
  <<T_CONTAINER>> \o SizeOperand \o <<T_AND>> \o SizeOperand \o <<T_OR>>
    \o SizeOperand \o Block

\* C6 as stated: on container (a) and (b) or (c) { } the condition consumes
\* all three operands and both operators, the cursor is at `{` when the block
\* parser is invoked and the node is a ContainerAtRule without a Bogus node;
\* and every chain of and/or operators is consumed whole.
MixedCombinatorsConsumed ==
  /\ (tokens = MixedExample /\ Running("parse_container_at_rule", "block")) =>
       cur(p) = T_L_CURLY
  /\ (tokens = MixedExample /\ Returned("parse_container_at_rule")) =>
       /\ p.events[1].k = CSS_CONTAINER_AT_RULE
       /\ OpenCount(p.events, BogusKinds) = 0
  /\ (IsChainInput /\ Running("parse_container_at_rule", "block")) =>
       p.pos = ChainEnd

\* C6 as amended: a chain whose first operator is `and` is consumed up to,
\* and not including, its first `or`; on container (a) and (b) or (c) { } the
\* condition is the ContainerAndQuery over `(a) and (b)` and the cursor is at
\* `or` when the block parser is invoked.
AndChainStopsAtFirstOr ==
  /\ (IsChainInput /\ OperatorsOf(tokens)[1] = T_AND
        /\ Running("parse_container_at_rule", "block")) =>
       p.pos = Min(FirstIndex(tokens, {T_OR}), ChainEnd)
  /\ (tokens = MixedExample /\ Running("parse_container_at_rule", "block")) =>
       /\ cur(p) = T_OR
       /\ ret.present
       /\ p.events[ret.node].k = CSS_CONTAINER_AND_QUERY
       /\ TokenPositions(p.events, ret.node, Len(p.events)) = Positions(2, 9)

\* the block parser is invoked at the `or` of the mixed example
BlockInvokedAtOr ==
  /\ tokens = MixedExample
  /\ Running("parse_container_at_rule", "block")
  /\ cur(p) = T_OR

\* container not (style(color: red))
NotStyleExample ==
  <<T_CONTAINER, T_NOT, T_L_PAREN>> \o StyleOperand \o <<T_R_PAREN>>

\* container style(color: red)
StyleExample == <<T_CONTAINER>> \o StyleOperand

\* C7 as stated: the condition of container not (style(color: red)) is a
\* ContainerNotQuery over a ContainerQueryInParens over a
\* ContainerStyleQueryInParens over a ContainerStyleInParens.
NotStyleNesting ==
  (tokens = NotStyleExample /\ ConditionReturned) =>
    /\ ret.present
    /\ IsNode(p.events, ret.node, {CSS_CONTAINER_NOT_QUERY})
    /\ LET c1 == Children(p.events, ret.node)
       IN  /\ Len(c1) = 2
           /\ IsNode(p.events, c1[2], {CSS_CONTAINER_QUERY_IN_PARENS})
           /\ \E i \in c1[2]..Len(p.events) :
                /\ IsNode(p.events, i, {CSS_CONTAINER_STYLE_QUERY_IN_PARENS})
                /\ \E j \in i..Len(p.events) :
                     IsNode(p.events, j, {CSS_CONTAINER_STYLE_IN_PARENS})

\* C7 as amended: the condition of container not (style(color: red)) is a
\* ContainerNotQuery whose operand is a ContainerSizeFeatureInParens (a `(`
\* followed by `style` is a size-feature parenthesis), and no
\* ContainerQueryInParens, ContainerStyleQueryInParens or
\* ContainerStyleInParens node is built; the content of style(color: red) is
\* a declaration, not a ContainerStyleInParens.
NotStyleIsSizeFeature ==
  /\ (tokens = NotStyleExample /\ ConditionReturned) =>
       /\ ret.present
       /\ IsNode(p.events, ret.node, {CSS_CONTAINER_NOT_QUERY})
       /\ LET c1 == Children(p.events, ret.node)
          IN  /\ Len(c1) = 2
              /\ IsToken(p.events, c1[1], T_NOT)
              /\ IsNode(p.events, c1[2], {CSS_CONTAINER_SIZE_FEATURE_IN_PARENS})
       /\ OpenCount(p.events, {CSS_CONTAINER_QUERY_IN_PARENS,
                               CSS_CONTAINER_STYLE_QUERY_IN_PARENS,
                               CSS_CONTAINER_STYLE_IN_PARENS}) = 0
  /\ (tokens = StyleExample /\ ConditionReturned) =>
       /\ ret.present
       /\ IsNode(p.events, ret.node, {CSS_CONTAINER_STYLE_QUERY_IN_PARENS})
       /\ LET c1 == Children(p.events, ret.node)
          IN  /\ Len(c1) = 4
              /\ IsNode(p.events, c1[3], {CSS_DECLARATION})
       /\ OpenCount(p.events, {CSS_CONTAINER_STYLE_IN_PARENS}) = 0

\* the condition of container not (style(color: red)) has been parsed
NotStyleConditionParsed ==
  /\ tokens = NotStyleExample
  /\ ConditionReturned
  /\ OpenCount(p.events, {CSS_CONTAINER_SIZE_FEATURE_IN_PARENS}) = 1

RECURSIVE RightNested(_, _, _, _)
\* node n is `operand op rest` of kind CombinatorKind(op), rest being the
\* right-nested chain of the remaining k - 1 operands
RightNested(ev, n, op, k) ==
  /\ IsNode(ev, n, {CombinatorKind(op)})
  /\ LET ch == Children(ev, n)
     IN  /\ Len(ch) = 3
         /\ IsNode(ev, ch[1], OperandKinds)
         /\ IsToken(ev, ch[2], op)
         /\ IF k = 2 THEN IsNode(ev, ch[3], OperandKinds)
            ELSE RightNested(ev, ch[3], op, k - 1)

\* C8 as stated: for a chain of three or more operands joined by the same
\* combinator, the first child of the outermost combinator node is a
\* combinator node of the same kind (shape ((a and b) and c)).
LeftFoldedChain ==
  \A op \in ChainOps :
    (IsHomogeneousChain(op) /\ Len(OperatorsOf(tokens)) >= 2 /\ ConditionReturned) =>
      /\ ret.present
      /\ IsNode(p.events, ret.node, {CombinatorKind(op)})
      /\ IsNode(p.events, Children(p.events, ret.node)[1], {CombinatorKind(op)})

\* C8 as amended: the chain nests to the right: the outermost
\* ContainerAndQuery has as its children the first operand, the `and` token
\* and the ContainerAndQuery of the remaining operands (shape
\* (a and (b and c))), for `and` chains of any length and likewise for `or`
\* chains of two or three operands; the first child of a combinator node is
\* never a combinator node.
RightNestedChain ==
  /\ (IsHomogeneousChain(T_AND) /\ ConditionReturned) =>
       /\ ret.present
       /\ RightNested(p.events, ret.node, T_AND, Len(OperatorsOf(tokens)) + 1)
  /\ (IsHomogeneousChain(T_OR) /\ Len(OperatorsOf(tokens)) <= 2 /\ ConditionReturned) =>
       /\ ret.present
       /\ RightNested(p.events, ret.node, T_OR, Len(OperatorsOf(tokens)) + 1)
  /\ \A i \in 1..(Len(p.events) - 1) :
       IsNode(p.events, i, {CSS_CONTAINER_AND_QUERY, CSS_CONTAINER_OR_QUERY}) =>
         ~IsNode(p.events, i + 1, {CSS_CONTAINER_AND_QUERY, CSS_CONTAINER_OR_QUERY})

\* the condition of a three-operand `and` chain has been parsed
ThreeOperandAndChainParsed ==
  /\ IsHomogeneousChain(T_AND)
  /\ Len(OperatorsOf(tokens)) = 2
  /\ ConditionReturned
  /\ OpenCount(p.events, {CSS_CONTAINER_AND_QUERY}) = 2

\* the node kind the lookahead (current token, next token) selects
DispatchKind(c, nx) ==
  CASE c = T_L_PAREN /\ nx \in {T_NOT, T_L_PAREN} -> CSS_CONTAINER_QUERY_IN_PARENS
    [] c = T_L_PAREN /\ nx \notin {T_NOT, T_L_PAREN} -> CSS_CONTAINER_SIZE_FEATURE_IN_PARENS
    [] c = T_STYLE -> CSS_CONTAINER_STYLE_QUERY_IN_PARENS
    [] OTHER -> "Absent"

DispatchProduction(c, nx) ==
  CASE c = T_L_PAREN /\ nx \in {T_NOT, T_L_PAREN} -> "parse_container_query_in_parens"
    [] c = T_L_PAREN /\ nx \notin {T_NOT, T_L_PAREN} -> "parse_container_size_feature_in_parens"
    [] c = T_STYLE -> "parse_container_style_query_in_parens"
    [] OTHER -> "none"

\* C9: parse_any_container_query_in_parens hands over to, and returns the
\* node of, the alternative its two tokens of lookahead select: `(` then
\* `not` or `(` a ContainerQueryInParens, `(` then anything else a
\* ContainerSizeFeatureInParens, `style` a ContainerStyleQueryInParens, and
\* any other current token Absent.
LookaheadDispatch ==
  /\ Returned("parse_any_container_query_in_parens") =>
       LET kind == IF lastRet.res.present THEN p.events[lastRet.res.node].k
                   ELSE "Absent"
       IN  kind = DispatchKind(TokenAt(lastRet.f.pos0), TokenAt(lastRet.f.pos0 + 1))
  /\ (Len(stack) >= 2 /\ stack[Len(stack) - 1].fn = "parse_any_container_query_in_parens") =>
       Top.fn = DispatchProduction(TokenAt(stack[Len(stack) - 1].pos0),
                                   TokenAt(stack[Len(stack) - 1].pos0 + 1))

\* a grouping parenthesis has been dispatched on `(` `(` and has returned
GroupingParenReturned ==
  /\ ReturnedPresent("parse_any_container_query_in_parens")
  /\ TokenAt(lastRet.f.pos0) = T_L_PAREN
  /\ TokenAt(lastRet.f.pos0 + 1) = T_L_PAREN
  /\ p.events[lastRet.res.node].k = CSS_CONTAINER_QUERY_IN_PARENS

\* C10: on a chain of n >= 2 operands joined by one operator op, the condition
\* consumes all n operands and n - 1 operators and builds exactly n - 1
\* combinator nodes, all of the kind of op.
HomogeneousChainConsumed ==
  \A op \in ChainOps :
    (IsHomogeneousChain(op) /\ ConditionReturned) =>
      /\ p.pos = ChainEnd
      /\ OpenCount(p.events, {CombinatorKind(op)}) = Len(OperatorsOf(tokens))
      /\ OpenCount(p.events, {CSS_CONTAINER_AND_QUERY, CSS_CONTAINER_OR_QUERY}) =
           Len(OperatorsOf(tokens))

====
